---- MODULE Spec2Model ----
(***************************************************************************)
(* GroupCart service: the route handlers of routes.ts (createRouter) over  *)
(* the PostgreSQL schema of sql/groupcart-schema.sql.                      *)
(*                                                                         *)
(* Every `await db.*(...)` of a handler is one statement that the database *)
(* executes atomically (autocommit; no handler opens a transaction).  The  *)
(* synchronous code between two awaits runs without interruption on the    *)
(* single JavaScript thread, so one action of the model is: the code that  *)
(* leads to a statement, and the statement.  A statement that violates a   *)
(* constraint of the schema throws; every handler catches it and answers   *)
(* 500.  Several requests are in flight at once (Procs).                   *)
(***************************************************************************)
EXTENDS Integers, Sequences, FiniteSets, TLC

(* ------------------------------ bounds --------------------------------- *)
\* requests in flight at the same time
NumProcs == 2
\* values the SERIAL id sequences of AppUser, ListItem and Favor may hand out
MaxUserId == 4
MaxItemId == 3
MaxFavorId == 3
\* largest reading of the clock (CURRENT_TIMESTAMP, new Date())
MaxClock == 2
\* requests the service receives in one run
MaxCalls == 2

Procs == 1 .. NumProcs

(* --------------------------- input domains ----------------------------- *)
Usernames == {"a", "b"}
\* username and body of POST /user/:username: <<username, firstName,
\* lastName>>; "" is the falsy (missing or empty) value
PostUserRequests ==
    ((Usernames \cup {"c"}) \X {"Ann"} \X {"Lee"})
        \cup {<<"a", "", "Lee">>, <<"a", "Ann", "">>}
GroupIds == {"dev-team", "g2"}
GroupNames == {"", "G", "H"}
\* the users array of POST /group/:id; <<>> also stands for a missing one
GroupUsers == {<<>>, <<"a">>, <<"a", "b">>, <<"a", "a">>, <<"a", "ghost">>}
\* item names as sequences of code points: "M", "m" and the empty string
ItemNames == {<<77>>, <<109>>}
\* the names PUT /list/:username/:id may give an item: those and "Ma"
NewItemNames == ItemNames \cup {<<77, 97>>}
\* priority as sent in the body; 0 stands for a missing (falsy) priority
Priorities == {2}
\* the priority PUT /list/:username/:id gives an item
NewPriorities == {3}
\* username and body of POST /list/:username: <<username, item, priority>>;
\* item <<>> is the empty (or missing) name, priority 0 the missing (or
\* zero) one
PostListRequests ==
    (Usernames \X ItemNames \X Priorities)
        \cup {<<"a", <<>>, 2>>, <<"a", <<77>>, 0>>, <<"a", <<77>>, 4>>,
              <<"ghost", <<77>>, 2>>}
\* username, id and body of PUT /list/:username/:id:
\* <<username, id, item, priority>>
PutListRequests ==
    (Usernames \X (1 .. MaxItemId) \X NewItemNames \X NewPriorities)
        \cup {<<"a", 1, <<>>, 3>>, <<"a", 1, <<77>>, 0>>, <<"a", 1, <<77>>, 4>>}
\* bodies of POST /favor: <<itemId, by, for, amount>>; amount <<>> is
\* undefined, <<v>> is the number v
PostFavorRequests ==
    ((1 .. MaxItemId) \X Usernames \X Usernames \X {<<3>>})
        \cup {<<2, "a", "b", <<>>>>, <<1, "b", "a", <<-1>>>>}
\* id and body of PUT /favor/:id: <<id, reimbursed, amount>>; reimbursed <<>>
\* is undefined, <<b>> is the boolean b
PutFavorRequests ==
    ((1 .. MaxFavorId) \X {<<TRUE>>, <<FALSE>>} \X {<<5>>})
        \cup {<<1, <<>>, <<5>>>>, <<1, <<TRUE>>, <<>>>>, <<1, <<FALSE>>, <<-1>>>>}

\* SQL NULL of a timestamp column, of an integer key, of AppUser.groupID
NullTime == 0
NoId == 0
NullGroup == "<null>"

\* bodies of PUT /user/:username: <<firstName, lastName, color, groupId>>;
\* a field is <<>> (undefined) or <<v>>, and <<NullGroup>> is the JSON null
\* (of color as well as of groupId)
PutUserBodies ==
    {<<<<>>, <<>>, <<>>, <<>>>>,
     <<<<"Bob">>, <<>>, <<>>, <<>>>>,
     <<<<>>, <<>>, <<NullGroup>>, <<>>>>,
     <<<<>>, <<>>, <<>>, <<"dev-team">>>>,
     <<<<>>, <<>>, <<>>, <<"g2">>>>,
     <<<<>>, <<>>, <<>>, <<NullGroup>>>>}
PutUserNames == {"a", "ghost"}

(* ------------------------------- state --------------------------------- *)
VARIABLES
    UserGroup,      \* table UserGroup: set of rows [ID, name]
    AppUser,        \* table AppUser:   set of rows
    ListItem,       \* table ListItem:  set of rows
    Favor,          \* table Favor:     set of rows
    nextUserId,     \* next value of the sequence behind AppUser.ID
    nextItemId,     \* next value of the sequence behind ListItem.ID
    nextFavorId,    \* next value of the sequence behind Favor.ID
    clock,          \* wall clock
    calls,          \* requests accepted so far
    proc,           \* per request in flight: position, arguments, locals
    resp            \* the response sent by the latest step, if it sent one

tables == <<UserGroup, AppUser, ListItem, Favor>>
seqs == <<nextUserId, nextItemId, nextFavorId>>
vars == <<UserGroup, AppUser, ListItem, Favor, nextUserId, nextItemId,
          nextFavorId, clock, calls, proc, resp>>

\* a request slot with no handler running
IdleProc ==
    [pc |-> "idle", op |-> "none",
     \* req.params and req.body
     username |-> "", firstName |-> "", lastName |-> "",
     id |-> NoId, gid |-> "", name |-> "", users |-> <<>>,
     item |-> <<>>, priority |-> 0,
     by |-> "", amount |-> <<>>, reimbursed |-> <<>>, body |-> <<>>,
     \* locals of the handler
     userId |-> NoId, byUserId |-> NoId, favorId |-> NoId,
     itemCount |-> 0, favorCount |-> 0, reimbursedAt |-> NullTime,
     \* rows the statements of this request have inserted, updated or
     \* deleted so far (the row counts the driver reports): in all, of
     \* ListItem, of Favor
     rows |-> 0, itemRows |-> 0, favorRows |-> 0]

NoResp == [op |-> "none", status |-> 0, call |-> IdleProc, body |-> <<>>]

\* a request arrives and its handler starts in slot p
Accept(p) ==
    /\ proc[p].pc = "idle"
    /\ calls < MaxCalls
    /\ calls' = calls + 1

\* res.status(s).json(b) : the handler of request p ends
Respond(p, call, s, b) ==
    /\ proc' = [proc EXCEPT ![p] = IdleProc]
    /\ resp' = [op |-> call.op, status |-> s, call |-> call, body |-> b]

\* the handler of request p awaits its next statement
Await(p, call, label) ==
    /\ proc' = [proc EXCEPT ![p] = [call EXCEPT !.pc = label]]
    /\ resp' = NoResp

Range(s) == {s[k] : k \in DOMAIN s}

(* ------------------------- schema: row lookups ------------------------- *)
UserByName(u) == {r \in AppUser : r.username = u}
UserIds == {r.ID : r \in AppUser}
GroupIdsUsed == {g.ID : g \in UserGroup}
ItemIds == {r.ID : r \in ListItem}
FavorOfItem(i) == {f \in Favor : f.itemID = i}

(* ---------------------- schema: constraint checks ---------------------- *)
\* AppUser.username UNIQUE
InsertAppUserOk(u) == UserByName(u) = {}

\* ListItem.userID REFERENCES AppUser(ID); priority BETWEEN 1 AND 3
InsertListItemOk(uid, prio) == uid \in UserIds /\ prio \in 1 .. 3

\* UserGroup without its primary key
InsertUserGroupOk_NoPk(gid) == gid \in GroupIds

\* UserGroup.ID PRIMARY KEY
InsertUserGroupOk(gid) == gid \notin GroupIdsUsed

\* Favor.itemID UNIQUE
FavorItemUnique(i) == FavorOfItem(i) = {}

\* InsertFavorOk for a schema with CHECK (byUserID <> forUserID)
InsertFavorOk_NoSelf(amount, byId, forId, i) ==
    /\ Len(amount) = 1
    /\ byId \in UserIds
    /\ forId \in UserIds
    /\ byId # forId
    /\ i \in ItemIds
    /\ FavorItemUnique(i)

\* InsertFavorOk for a schema whose Favor.itemID is not declared UNIQUE
InsertFavorOk_NoUnique(amount, byId, forId, i) ==
    /\ Len(amount) = 1
    /\ byId \in UserIds
    /\ forId \in UserIds
    /\ i \in ItemIds

\* Favor.byUserID, Favor.forUserID REFERENCES AppUser(ID);
\* Favor.itemID UNIQUE REFERENCES ListItem(ID); amount NOT NULL
InsertFavorOk(amount, byId, forId, i) ==
    /\ Len(amount) = 1
    /\ byId \in UserIds
    /\ forId \in UserIds
    /\ i \in ItemIds
    /\ FavorItemUnique(i)

\* DeleteListItemOk for a schema whose Favor.itemID is no foreign key
DeleteListItemOk_NoFk(ids) == TRUE

\* rows of Favor still reference the ListItem rows to delete
\* (Favor.itemID REFERENCES ListItem(ID), no ON DELETE action)
DeleteListItemOk(ids) == \A f \in Favor : f.itemID \notin ids

\* DeleteAppUserOk for a schema whose ListItem.userID is no foreign key
DeleteAppUserOk_NoFk(uid) ==
    \A f \in Favor : f.byUserID # uid /\ f.forUserID # uid

\* rows of ListItem or Favor still reference the AppUser row to delete
\* (REFERENCES AppUser(ID), no ON DELETE action)
DeleteAppUserOk(uid) ==
    /\ \A r \in ListItem : r.userID # uid
    /\ \A f \in Favor : f.byUserID # uid /\ f.forUserID # uid

(* ------------------------------ handlers ------------------------------- *)

\* PostUser_Select without the lookup of the username
PostUser_Select_NoLookup(p, username, firstName, lastName) ==
    LET call == [IdleProc EXCEPT !.op = "createUser", !.username = username,
                                 !.firstName = firstName,
                                 !.lastName = lastName]
    IN  /\ Accept(p)
        /\ UNCHANGED <<tables, seqs, clock>>
        /\ IF firstName = "" \/ lastName = ""
           THEN Respond(p, call, 400, <<>>)
           ELSE Await(p, call, "PostUser_Insert")

\* POST /user/:username -- validation and SELECT id FROM AppUser
PostUser_Select(p, username, firstName, lastName) ==
    LET call == [IdleProc EXCEPT !.op = "createUser", !.username = username,
                                 !.firstName = firstName,
                                 !.lastName = lastName]
    IN  /\ Accept(p)
        /\ UNCHANGED <<tables, seqs, clock>>
        /\ IF firstName = "" \/ lastName = ""
           THEN Respond(p, call, 400, <<>>)
           ELSE IF UserByName(username) # {}
           THEN Respond(p, call, 409, <<>>)
           ELSE Await(p, call, "PostUser_Insert")

\* POST /user/:username -- INSERT INTO AppUser ... RETURNING id
PostUser_Insert(p) ==
    LET call == proc[p]
        row == [ID |-> nextUserId, username |-> call.username,
                firstName |-> call.firstName, lastName |-> call.lastName,
                color |-> "", groupID |-> NullGroup]
    IN  /\ call.pc = "PostUser_Insert"
        /\ UNCHANGED calls
        /\ nextUserId <= MaxUserId
        /\ nextUserId' = nextUserId + 1
        /\ UNCHANGED <<UserGroup, ListItem, Favor, nextItemId, nextFavorId, clock>>
        /\ IF InsertAppUserOk(call.username)
           THEN /\ AppUser' = AppUser \cup {row}
                /\ Respond(p, [call EXCEPT !.rows = 1, !.userId = row.ID], 201, <<>>)
           ELSE /\ AppUser' = AppUser
                /\ Respond(p, call, 500, <<>>)

\* PostList_Select without the upper limit of the priority
\* (if (!priority || priority < 1))
PostList_Select_NoUpper(p, username, item, priority) ==
    LET call == [IdleProc EXCEPT !.op = "createListItem", !.username = username,
                                 !.item = item, !.priority = priority]
        user == UserByName(username)
    IN  /\ Accept(p)
        /\ UNCHANGED <<tables, seqs, clock>>
        /\ IF item = <<>>
           THEN Respond(p, call, 400, <<>>)
           ELSE IF priority = 0 \/ priority < 1
           THEN Respond(p, call, 400, <<>>)
           ELSE IF user = {}
           THEN Respond(p, call, 404, <<>>)
           ELSE Await(p, [call EXCEPT !.userId = (CHOOSE r \in user : TRUE).ID],
                      "PostList_Insert")

\* POST /list/:username -- validation and SELECT id FROM AppUser
PostList_Select(p, username, item, priority) ==
    LET call == [IdleProc EXCEPT !.op = "createListItem", !.username = username,
                                 !.item = item, !.priority = priority]
        user == UserByName(username)
    IN  /\ Accept(p)
        /\ UNCHANGED <<tables, seqs, clock>>
        /\ IF item = <<>>
           THEN Respond(p, call, 400, <<>>)
           ELSE IF priority = 0 \/ priority < 1 \/ priority > 3
           THEN Respond(p, call, 400, <<>>)
           ELSE IF user = {}
           THEN Respond(p, call, 404, <<>>)
           ELSE Await(p, [call EXCEPT !.userId = (CHOOSE r \in user : TRUE).ID],
                      "PostList_Insert")

\* POST /list/:username -- INSERT INTO ListItem ... RETURNING id, added
PostList_Insert(p) ==
    LET call == proc[p]
        row == [ID |-> nextItemId, itemName |-> call.item,
                priority |-> call.priority, added |-> clock,
                userID |-> call.userId]
    IN  /\ call.pc = "PostList_Insert"
        /\ UNCHANGED calls
        /\ nextItemId <= MaxItemId
        /\ nextItemId' = nextItemId + 1
        /\ UNCHANGED <<UserGroup, AppUser, Favor, nextUserId, nextFavorId, clock>>
        /\ IF InsertListItemOk(call.userId, call.priority)
           THEN /\ ListItem' = ListItem \cup {row}
                /\ Respond(p, [call EXCEPT !.rows = 1, !.id = row.ID], 201, <<>>)
           ELSE /\ ListItem' = ListItem
                /\ Respond(p, call, 500, <<>>)

\* the row of ListItem li JOIN AppUser u WHERE li.id = id AND u.username = username
OwnedItem(id, username) ==
    {r \in ListItem : r.ID = id /\ \E u \in UserByName(username) : u.ID = r.userID}

\* PUT /list/:username/:id -- validation and SELECT li.id ... JOIN AppUser
PutList_Select(p, username, id, item, priority) ==
    LET call == [IdleProc EXCEPT !.op = "updateListItem", !.username = username,
                                 !.id = id, !.item = item, !.priority = priority]
    IN  /\ Accept(p)
        /\ UNCHANGED <<tables, seqs, clock>>
        /\ IF item = <<>>
           THEN Respond(p, call, 400, <<>>)
           ELSE IF priority = 0 \/ priority < 1 \/ priority > 3
           THEN Respond(p, call, 400, <<>>)
           ELSE IF OwnedItem(id, username) = {}
           THEN Respond(p, call, 404, <<>>)
           ELSE Await(p, call, "PutList_Update")

\* PutList_Update without its WHERE clause
PutList_Update_AllRows(p) ==
    LET call == proc[p]
        hit == ListItem
    IN  /\ call.pc = "PutList_Update"
        /\ UNCHANGED calls
        /\ UNCHANGED <<UserGroup, AppUser, Favor, seqs, clock>>
        /\ IF call.priority \in 1 .. 3
           THEN /\ ListItem' = (ListItem \ hit) \cup
                       {[r EXCEPT !.itemName = call.item,
                                  !.priority = call.priority] : r \in hit}
                /\ Respond(p, [call EXCEPT !.rows = Cardinality(hit)], 200, <<>>)
           ELSE /\ ListItem' = ListItem
                /\ Respond(p, call, 500, <<>>)

\* PUT /list/:username/:id -- UPDATE ListItem SET itemName, priority WHERE id
PutList_Update(p) ==
    LET call == proc[p]
        hit == {r \in ListItem : r.ID = call.id}
    IN  /\ call.pc = "PutList_Update"
        /\ UNCHANGED calls
        /\ UNCHANGED <<UserGroup, AppUser, Favor, seqs, clock>>
        /\ IF call.priority \in 1 .. 3
           THEN /\ ListItem' = (ListItem \ hit) \cup
                       {[r EXCEPT !.itemName = call.item,
                                  !.priority = call.priority] : r \in hit}
                /\ Respond(p, [call EXCEPT !.rows = Cardinality(hit)], 200, <<>>)
           ELSE /\ ListItem' = ListItem
                /\ Respond(p, call, 500, <<>>)

\* DELETE /list/:username/:id -- SELECT li.id ... JOIN AppUser
DeleteList_Select(p, username, id) ==
    LET call == [IdleProc EXCEPT !.op = "deleteListItem", !.username = username,
                                 !.id = id]
    IN  /\ Accept(p)
        /\ UNCHANGED <<tables, seqs, clock>>
        /\ IF OwnedItem(id, username) = {}
           THEN Respond(p, call, 404, <<>>)
           ELSE Await(p, call, "DeleteList_DeleteFavor")

\* DELETE /list/:username/:id -- DELETE FROM Favor WHERE itemID = id
DeleteList_DeleteFavor(p) ==
    LET call == proc[p]
        hit == FavorOfItem(call.id)
    IN  /\ call.pc = "DeleteList_DeleteFavor"
        /\ UNCHANGED calls
        /\ UNCHANGED <<UserGroup, AppUser, ListItem, seqs, clock>>
        /\ Favor' = Favor \ hit
        /\ Await(p, [call EXCEPT !.rows = @ + Cardinality(hit)],
                 "DeleteList_DeleteItem")

\* DELETE /list/:username/:id -- DELETE FROM ListItem WHERE id = id
DeleteList_DeleteItem(p) ==
    LET call == proc[p]
        hit == {r \in ListItem : r.ID = call.id}
    IN  /\ call.pc = "DeleteList_DeleteItem"
        /\ UNCHANGED calls
        /\ UNCHANGED <<UserGroup, AppUser, Favor, seqs, clock>>
        /\ IF DeleteListItemOk({r.ID : r \in hit})
           THEN /\ ListItem' = ListItem \ hit
                /\ Respond(p, [call EXCEPT !.rows = @ + Cardinality(hit)], 200, <<>>)
           ELSE /\ ListItem' = ListItem
                /\ Respond(p, call, 500, <<>>)

\* PUT /user/:username -- validation and SELECT ... FROM AppUser WHERE
\* username; color is tested with ==, which null satisfies as well
PutUser_Select(p, username, body) ==
    LET call == [IdleProc EXCEPT !.op = "updateUser", !.username = username,
                                 !.body = body]
        groupId == body[4]
    IN  /\ Accept(p)
        /\ UNCHANGED <<tables, seqs, clock>>
        /\ IF /\ body[1] = <<>> /\ body[2] = <<>> /\ groupId = <<>>
              /\ body[3] \in {<<>>, <<NullGroup>>}
           THEN Respond(p, call, 400, <<>>)
           ELSE IF UserByName(username) = {}
           THEN Respond(p, call, 404, <<>>)
           ELSE IF groupId # <<>> /\ groupId # <<NullGroup>>
           THEN Await(p, call, "PutUser_SelectGroup")
           ELSE Await(p, call, "PutUser_Update")

\* PUT /user/:username -- SELECT ID FROM UserGroup WHERE ID = groupId
PutUser_SelectGroup(p) ==
    LET call == proc[p]
    IN  /\ call.pc = "PutUser_SelectGroup"
        /\ UNCHANGED calls
        /\ UNCHANGED <<tables, seqs, clock>>
        /\ IF call.body[4][1] \notin GroupIdsUsed
           THEN Respond(p, call, 404, <<>>)
           ELSE Await(p, call, "PutUser_Update")

\* the text of the UPDATE that PUT /user/:username builds: the template
\* literals put the bare value of paramIndex after each column and after
\* WHERE username =, so the SET list assigns the integers 1, 2, ... and the
\* WHERE clause compares the VARCHAR username with an integer
PutUserStatement(body) ==
    LET cols == SelectSeq(<<1, 2, 3, 4>>, LAMBDA c : body[c] # <<>>)
    IN  [set |-> [k \in DOMAIN cols |-> <<cols[k], k>>],
         whereUsername |-> Len(cols) + 1]

\* PostgreSQL has no operator VARCHAR = INTEGER: a statement whose WHERE
\* clause compares username with an integer literal is rejected
PutUserStatementOk(stmt) == stmt.whereUsername \notin Int

\* PUT /user/:username -- UPDATE AppUser SET ... WHERE username
PutUser_Update(p) ==
    LET call == proc[p]
        stmt == PutUserStatement(call.body)
    IN  /\ call.pc = "PutUser_Update"
        /\ UNCHANGED calls
        /\ UNCHANGED <<tables, seqs, clock>>
        /\ IF PutUserStatementOk(stmt)
           THEN Respond(p, call, 200, <<>>)
           ELSE Respond(p, call, 500, <<>>)

\* DELETE /user/:username -- SELECT id FROM AppUser WHERE username
DeleteUser_Select(p, username) ==
    LET call == [IdleProc EXCEPT !.op = "deleteUser", !.username = username]
        user == UserByName(username)
    IN  /\ Accept(p)
        /\ UNCHANGED <<tables, seqs, clock>>
        /\ IF user = {}
           THEN Respond(p, call, 404, <<>>)
           ELSE Await(p, [call EXCEPT !.userId = (CHOOSE r \in user : TRUE).ID],
                      "DeleteUser_CountItems")

\* DELETE /user/:username -- SELECT COUNT(*) FROM ListItem WHERE userID
DeleteUser_CountItems(p) ==
    LET call == proc[p]
    IN  /\ call.pc = "DeleteUser_CountItems"
        /\ UNCHANGED calls
        /\ UNCHANGED <<tables, seqs, clock>>
        /\ Await(p, [call EXCEPT !.itemCount =
                        Cardinality({r \in ListItem : r.userID = call.userId})],
                 "DeleteUser_CountFavors")

\* DELETE /user/:username -- SELECT COUNT(*) FROM Favor WHERE byUserID OR forUserID
DeleteUser_CountFavors(p) ==
    LET call == proc[p]
    IN  /\ call.pc = "DeleteUser_CountFavors"
        /\ UNCHANGED calls
        /\ UNCHANGED <<tables, seqs, clock>>
        /\ Await(p, [call EXCEPT !.favorCount =
                        Cardinality({f \in Favor : \/ f.byUserID = call.userId
                                                   \/ f.forUserID = call.userId})],
                 "DeleteUser_DeleteItemFavors")

\* DeleteUser_DeleteItemFavors whose subquery has lost its WHERE userID
DeleteUser_DeleteItemFavors_AnyItem(p) ==
    LET call == proc[p]
        items == {r.ID : r \in ListItem}
        hit == {f \in Favor : f.itemID \in items}
    IN  /\ call.pc = "DeleteUser_DeleteItemFavors"
        /\ UNCHANGED calls
        /\ UNCHANGED <<UserGroup, AppUser, ListItem, seqs, clock>>
        /\ Favor' = Favor \ hit
        /\ Await(p, [call EXCEPT !.rows = @ + Cardinality(hit),
                                 !.favorRows = @ + Cardinality(hit)],
                 "DeleteUser_DeleteUserFavors")

\* DELETE /user/:username --
\* DELETE FROM Favor WHERE itemID IN (SELECT id FROM ListItem WHERE userID)
DeleteUser_DeleteItemFavors(p) ==
    LET call == proc[p]
        items == {r.ID : r \in {r \in ListItem : r.userID = call.userId}}
        hit == {f \in Favor : f.itemID \in items}
    IN  /\ call.pc = "DeleteUser_DeleteItemFavors"
        /\ UNCHANGED calls
        /\ UNCHANGED <<UserGroup, AppUser, ListItem, seqs, clock>>
        /\ Favor' = Favor \ hit
        /\ Await(p, [call EXCEPT !.rows = @ + Cardinality(hit),
                                 !.favorRows = @ + Cardinality(hit)],
                 "DeleteUser_DeleteUserFavors")

\* DELETE /user/:username -- DELETE FROM Favor WHERE byUserID OR forUserID
DeleteUser_DeleteUserFavors(p) ==
    LET call == proc[p]
        hit == {f \in Favor : \/ f.byUserID = call.userId
                              \/ f.forUserID = call.userId}
    IN  /\ call.pc = "DeleteUser_DeleteUserFavors"
        /\ UNCHANGED calls
        /\ UNCHANGED <<UserGroup, AppUser, ListItem, seqs, clock>>
        /\ Favor' = Favor \ hit
        /\ Await(p, [call EXCEPT !.rows = @ + Cardinality(hit),
                                 !.favorRows = @ + Cardinality(hit)],
                 "DeleteUser_DeleteItems")

\* DELETE /user/:username -- DELETE FROM ListItem WHERE userID
DeleteUser_DeleteItems(p) ==
    LET call == proc[p]
        hit == {r \in ListItem : r.userID = call.userId}
    IN  /\ call.pc = "DeleteUser_DeleteItems"
        /\ UNCHANGED calls
        /\ UNCHANGED <<UserGroup, AppUser, Favor, seqs, clock>>
        /\ IF DeleteListItemOk({r.ID : r \in hit})
           THEN /\ ListItem' = ListItem \ hit
                /\ Await(p, [call EXCEPT !.rows = @ + Cardinality(hit),
                                         !.itemRows = @ + Cardinality(hit)],
                         "DeleteUser_DeleteUser")
           ELSE /\ ListItem' = ListItem
                /\ Respond(p, call, 500, <<>>)

\* DELETE /user/:username -- DELETE FROM AppUser WHERE id
DeleteUser_DeleteUser(p) ==
    LET call == proc[p]
        hit == {r \in AppUser : r.ID = call.userId}
    IN  /\ call.pc = "DeleteUser_DeleteUser"
        /\ UNCHANGED calls
        /\ UNCHANGED <<UserGroup, ListItem, Favor, seqs, clock>>
        /\ IF hit = {} \/ DeleteAppUserOk(call.userId)
           THEN /\ AppUser' = AppUser \ hit
                /\ Respond(p, [call EXCEPT !.rows = @ + Cardinality(hit)], 200, <<>>)
           ELSE /\ AppUser' = AppUser
                /\ Respond(p, call, 500, <<>>)

\* POST /favor -- validation and SELECT id FROM AppUser WHERE username = by
PostFavor_SelectBy(p, itemId, by, forUser, amount) ==
    LET call == [IdleProc EXCEPT !.op = "createFavor", !.id = itemId, !.by = by,
                                 !.username = forUser, !.amount = amount]
        user == UserByName(by)
    IN  /\ Accept(p)
        /\ UNCHANGED <<tables, seqs, clock>>
        /\ IF itemId = NoId \/ by = "" \/ forUser = "" \/ amount = <<>>
           THEN Respond(p, call, 400, <<>>)
           ELSE Await(p, [call EXCEPT !.byUserId =
                            IF user = {} THEN NoId
                            ELSE (CHOOSE r \in user : TRUE).ID],
                      "PostFavor_SelectFor")

\* PostFavor_SelectFor testing the beneficiary alone (if (!forUserData))
PostFavor_SelectFor_ForOnly(p) ==
    LET call == proc[p]
        user == UserByName(call.username)
    IN  /\ call.pc = "PostFavor_SelectFor"
        /\ UNCHANGED calls
        /\ UNCHANGED <<tables, seqs, clock>>
        /\ IF user = {}
           THEN Respond(p, call, 404, <<>>)
           ELSE Await(p, [call EXCEPT !.userId = (CHOOSE r \in user : TRUE).ID],
                      "PostFavor_SelectItem")

\* POST /favor -- SELECT id FROM AppUser WHERE username = for
PostFavor_SelectFor(p) ==
    LET call == proc[p]
        user == UserByName(call.username)
    IN  /\ call.pc = "PostFavor_SelectFor"
        /\ UNCHANGED calls
        /\ UNCHANGED <<tables, seqs, clock>>
        /\ IF call.byUserId = NoId \/ user = {}
           THEN Respond(p, call, 404, <<>>)
           ELSE Await(p, [call EXCEPT !.userId = (CHOOSE r \in user : TRUE).ID],
                      "PostFavor_SelectItem")

\* PostFavor_SelectItem looking the item up by its id alone (WHERE id = $1)
PostFavor_SelectItem_AnyOwner(p) ==
    LET call == proc[p]
    IN  /\ call.pc = "PostFavor_SelectItem"
        /\ UNCHANGED calls
        /\ UNCHANGED <<tables, seqs, clock>>
        /\ IF {r \in ListItem : r.ID = call.id} = {}
           THEN Respond(p, call, 404, <<>>)
           ELSE Await(p, call, "PostFavor_SelectFavor")

\* POST /favor -- SELECT id, itemName FROM ListItem WHERE id AND userID
PostFavor_SelectItem(p) ==
    LET call == proc[p]
    IN  /\ call.pc = "PostFavor_SelectItem"
        /\ UNCHANGED calls
        /\ UNCHANGED <<tables, seqs, clock>>
        /\ IF {r \in ListItem : r.ID = call.id /\ r.userID = call.userId} = {}
           THEN Respond(p, call, 404, <<>>)
           ELSE Await(p, call, "PostFavor_SelectFavor")

\* PostFavor_SelectFavor looking the Favor up by its own id (WHERE id = $1)
PostFavor_SelectFavor_ById(p) ==
    LET call == proc[p]
    IN  /\ call.pc = "PostFavor_SelectFavor"
        /\ UNCHANGED calls
        /\ UNCHANGED <<tables, seqs, clock>>
        /\ IF {f \in Favor : f.ID = call.id} # {}
           THEN Respond(p, call, 409, <<>>)
           ELSE Await(p, call, "PostFavor_Insert")

\* POST /favor -- SELECT id FROM Favor WHERE itemID
PostFavor_SelectFavor(p) ==
    LET call == proc[p]
    IN  /\ call.pc = "PostFavor_SelectFavor"
        /\ UNCHANGED calls
        /\ UNCHANGED <<tables, seqs, clock>>
        /\ IF FavorOfItem(call.id) # {}
           THEN Respond(p, call, 409, <<>>)
           ELSE Await(p, call, "PostFavor_Insert")

\* PostFavor_Insert that also stamps reimbursed with the current time
PostFavor_Insert_Reimbursed(p) ==
    LET call == proc[p]
        row == [ID |-> nextFavorId, amount |-> call.amount[1],
                fulfilled |-> clock, reimbursed |-> clock,
                byUserID |-> call.byUserId, forUserID |-> call.userId,
                itemID |-> call.id]
    IN  /\ call.pc = "PostFavor_Insert"
        /\ UNCHANGED calls
        /\ nextFavorId <= MaxFavorId
        /\ nextFavorId' = nextFavorId + 1
        /\ UNCHANGED <<UserGroup, AppUser, ListItem, nextUserId, nextItemId, clock>>
        /\ IF InsertFavorOk(call.amount, call.byUserId, call.userId, call.id)
           THEN /\ Favor' = Favor \cup {row}
                /\ Respond(p, [call EXCEPT !.rows = 1, !.favorId = row.ID], 201, <<>>)
           ELSE /\ Favor' = Favor
                /\ Respond(p, call, 500, <<>>)

\* POST /favor -- INSERT INTO Favor (amount, byUserID, forUserID, itemID)
PostFavor_Insert(p) ==
    LET call == proc[p]
        row == [ID |-> nextFavorId, amount |-> call.amount[1],
                fulfilled |-> clock, reimbursed |-> NullTime,
                byUserID |-> call.byUserId, forUserID |-> call.userId,
                itemID |-> call.id]
    IN  /\ call.pc = "PostFavor_Insert"
        /\ UNCHANGED calls
        /\ nextFavorId <= MaxFavorId
        /\ nextFavorId' = nextFavorId + 1
        /\ UNCHANGED <<UserGroup, AppUser, ListItem, nextUserId, nextItemId, clock>>
        /\ IF InsertFavorOk(call.amount, call.byUserId, call.userId, call.id)
           THEN /\ Favor' = Favor \cup {row}
                /\ Respond(p, [call EXCEPT !.rows = 1, !.favorId = row.ID], 201, <<>>)
           ELSE /\ Favor' = Favor
                /\ Respond(p, call, 500, <<>>)

\* PUT /favor/:id -- validation, SELECT id FROM Favor WHERE id, and
\* reimbursedAt = reimbursed ? new Date() : null
PutFavor_Select(p, id, reimbursed, amount) ==
    LET call == [IdleProc EXCEPT !.op = "updateFavor", !.id = id,
                                 !.reimbursed = reimbursed, !.amount = amount]
    IN  /\ Accept(p)
        /\ UNCHANGED <<tables, seqs, clock>>
        /\ IF amount = <<>> \/ reimbursed = <<>>
           THEN Respond(p, call, 400, <<>>)
           ELSE IF {f \in Favor : f.ID = id} = {}
           THEN Respond(p, call, 404, <<>>)
           ELSE Await(p, [call EXCEPT !.reimbursedAt =
                            IF reimbursed[1] THEN clock ELSE NullTime],
                      "PutFavor_Update")

\* PutFavor_Update with the wrong key column (WHERE itemID = $3)
PutFavor_Update_ByItem(p) ==
    LET call == proc[p]
        hit == {f \in Favor : f.itemID = call.id}
    IN  /\ call.pc = "PutFavor_Update"
        /\ UNCHANGED calls
        /\ UNCHANGED <<UserGroup, AppUser, ListItem, seqs, clock>>
        /\ Favor' = (Favor \ hit) \cup
                       {[f EXCEPT !.amount = call.amount[1],
                                  !.reimbursed = call.reimbursedAt] : f \in hit}
        /\ Respond(p, [call EXCEPT !.rows = Cardinality(hit)], 200, <<>>)

\* PutFavor_Update that writes the reimbursed column only when it stamps it
\* (reimbursed = COALESCE($2, reimbursed))
PutFavor_Update_KeepStamp(p) ==
    LET call == proc[p]
        hit == {f \in Favor : f.ID = call.id}
    IN  /\ call.pc = "PutFavor_Update"
        /\ UNCHANGED calls
        /\ UNCHANGED <<UserGroup, AppUser, ListItem, seqs, clock>>
        /\ Favor' = (Favor \ hit) \cup
                       {[f EXCEPT !.amount = call.amount[1],
                                  !.reimbursed =
                                      IF call.reimbursedAt = NullTime THEN @
                                      ELSE call.reimbursedAt] : f \in hit}
        /\ Respond(p, [call EXCEPT !.rows = Cardinality(hit)], 200, <<>>)

\* PutFavor_Update that keeps the stamp of a favor already reimbursed
\* (reimbursed = CASE WHEN $2 IS NULL THEN NULL ELSE COALESCE(reimbursed, $2) END)
PutFavor_Update_FirstStamp(p) ==
    LET call == proc[p]
        hit == {f \in Favor : f.ID = call.id}
    IN  /\ call.pc = "PutFavor_Update"
        /\ UNCHANGED calls
        /\ UNCHANGED <<UserGroup, AppUser, ListItem, seqs, clock>>
        /\ Favor' = (Favor \ hit) \cup
                       {[f EXCEPT !.amount = call.amount[1],
                                  !.reimbursed =
                                      IF call.reimbursedAt # NullTime /\ @ # NullTime
                                      THEN @
                                      ELSE call.reimbursedAt] : f \in hit}
        /\ Respond(p, [call EXCEPT !.rows = Cardinality(hit)], 200, <<>>)

\* PUT /favor/:id -- UPDATE Favor SET amount, reimbursed WHERE id
PutFavor_Update(p) ==
    LET call == proc[p]
        hit == {f \in Favor : f.ID = call.id}
    IN  /\ call.pc = "PutFavor_Update"
        /\ UNCHANGED calls
        /\ UNCHANGED <<UserGroup, AppUser, ListItem, seqs, clock>>
        /\ Favor' = (Favor \ hit) \cup
                       {[f EXCEPT !.amount = call.amount[1],
                                  !.reimbursed = call.reimbursedAt] : f \in hit}
        /\ Respond(p, [call EXCEPT !.rows = Cardinality(hit)], 200, <<>>)

\* POST /group/:id -- validation and SELECT ID FROM UserGroup WHERE ID
PostGroup_Select(p, gid, name, users) ==
    LET call == [IdleProc EXCEPT !.op = "createGroup", !.gid = gid,
                                 !.name = name, !.users = users]
    IN  /\ Accept(p)
        /\ UNCHANGED <<tables, seqs, clock>>
        /\ IF name = ""
           THEN Respond(p, call, 400, <<>>)
           ELSE IF gid \in GroupIdsUsed
           THEN Respond(p, call, 409, <<>>)
           ELSE Await(p, call, "PostGroup_Insert")

\* POST /group/:id -- INSERT INTO UserGroup (ID, name)
PostGroup_Insert(p) ==
    LET call == proc[p]
    IN  /\ call.pc = "PostGroup_Insert"
        /\ UNCHANGED calls
        /\ UNCHANGED <<AppUser, ListItem, Favor, seqs, clock>>
        /\ IF InsertUserGroupOk(call.gid)
           THEN /\ UserGroup' = UserGroup \cup {[ID |-> call.gid, name |-> call.name]}
                /\ IF Len(call.users) > 0
                   THEN Await(p, [call EXCEPT !.rows = 1], "PostGroup_SelectUsers")
                   ELSE Respond(p, [call EXCEPT !.rows = 1], 201, <<>>)
           ELSE /\ UserGroup' = UserGroup
                /\ Respond(p, call, 500, <<>>)

\* POST /group/:id -- SELECT username FROM AppUser WHERE username = ANY(users)
PostGroup_SelectUsers(p) ==
    LET call == proc[p]
        existingUsers == {r \in AppUser : r.username \in Range(call.users)}
    IN  /\ call.pc = "PostGroup_SelectUsers"
        /\ UNCHANGED calls
        /\ UNCHANGED <<tables, seqs, clock>>
        /\ IF Cardinality(existingUsers) # Len(call.users)
           THEN Respond(p, call, 404, <<>>)
           ELSE Await(p, call, "PostGroup_UpdateUsers")

\* POST /group/:id -- UPDATE AppUser SET groupID WHERE username = ANY(users)
PostGroup_UpdateUsers(p) ==
    LET call == proc[p]
        hit == {r \in AppUser : r.username \in Range(call.users)}
    IN  /\ call.pc = "PostGroup_UpdateUsers"
        /\ UNCHANGED calls
        /\ UNCHANGED <<UserGroup, ListItem, Favor, seqs, clock>>
        /\ IF hit = {} \/ call.gid \in GroupIdsUsed
           THEN /\ AppUser' = (AppUser \ hit) \cup
                       {[r EXCEPT !.groupID = call.gid] : r \in hit}
                /\ Respond(p, [call EXCEPT !.rows = @ + Cardinality(hit)], 201, <<>>)
           ELSE /\ AppUser' = AppUser
                /\ Respond(p, call, 500, <<>>)

\* GET /group/:id -- SELECT name FROM UserGroup WHERE ID
GetGroup_Select(p, gid) ==
    LET call == [IdleProc EXCEPT !.op = "getGroup", !.gid = gid]
        group == {g \in UserGroup : g.ID = gid}
    IN  /\ Accept(p)
        /\ UNCHANGED <<tables, seqs, clock>>
        /\ IF group = {}
           THEN Respond(p, call, 404, <<>>)
           ELSE Await(p, [call EXCEPT !.name = (CHOOSE g \in group : TRUE).name],
                      "GetGroup_SelectUsers")

\* the orders in which the executor may return a set of rows
RowOrders(rows) ==
    {s \in [1 .. Cardinality(rows) -> rows] :
        \A i, j \in DOMAIN s : i # j => s[i] # s[j]}

\* GET /group/:id -- SELECT username, color FROM AppUser WHERE groupID, and
\* users.map(u => u.username)
GetGroup_SelectUsers(p) ==
    LET call == proc[p]
        users == {[username |-> r.username] :
                     r \in {x \in AppUser : x.groupID = call.gid}}
    IN  /\ call.pc = "GetGroup_SelectUsers"
        /\ UNCHANGED calls
        /\ UNCHANGED <<tables, seqs, clock>>
        /\ \E rows \in RowOrders(users) : Respond(p, call, 200, rows)

\* code-point order of two item names
NameLess(a, b) ==
    \E k \in 1 .. Len(a) + 1 :
        /\ \A j \in 1 .. k - 1 : j <= Len(b) /\ a[j] = b[j]
        /\ IF k > Len(a) THEN Len(b) >= k
           ELSE k <= Len(b) /\ a[k] < b[k]

\* ORDER BY li.itemName DESC
RECURSIVE SortNames_Desc(_)
SortNames_Desc(S) ==
    IF S = {} THEN <<>>
    ELSE LET first == CHOOSE n \in S : \A m \in S \ {n} : NameLess(m, n)
         IN  <<first>> \o SortNames_Desc(S \ {first})

\* ORDER BY li.itemName
RECURSIVE SortNames(_)
SortNames(S) ==
    IF S = {} THEN <<>>
    ELSE LET first == CHOOSE n \in S : \A m \in S \ {n} : NameLess(n, m)
         IN  <<first>> \o SortNames(S \ {first})

\* ShopRows filtering on f.reimbursed IS NULL instead of f.id IS NULL
ShopRows_Unreimbursed ==
    {[id |-> li.ID, item |-> li.itemName, username |-> u.username] :
        <<li, u>> \in {x \in ListItem \X AppUser :
                          /\ x[1].userID = x[2].ID
                          /\ \A f \in Favor :
                                f.itemID = x[1].ID => f.reimbursed = NullTime}}

\* GET /shop -- FROM ListItem li JOIN AppUser u ON li.userID = u.id
\*              LEFT JOIN Favor f ON li.id = f.itemID WHERE f.id IS NULL
ShopRows ==
    {[id |-> li.ID, item |-> li.itemName, username |-> u.username] :
        <<li, u>> \in {x \in ListItem \X AppUser :
                          /\ x[1].userID = x[2].ID
                          /\ \A f \in Favor : f.itemID # x[1].ID}}

\* the orders in which the executor may hand a set of rows to array_agg
ScanOrders(rows) ==
    {s \in [1 .. Cardinality(rows) -> rows] :
        \A i, j \in DOMAIN s : i # j => s[i] # s[j]}

\* an item name with its capital letters A-Z made small
Lower(n) == [k \in DOMAIN n |-> IF n[k] \in 65 .. 90 THEN n[k] + 32 ELSE n[k]]

\* BuildShoppingList aggregating array_agg(DISTINCT u.username)
BuildShoppingList_Distinct(scan) ==
    LET names == SortNames({scan[k].item : k \in DOMAIN scan})
        Of(n) == SelectSeq(scan, LAMBDA r : r.item = n)
        Owners(n) == {Of(n)[k].username : k \in DOMAIN Of(n)}
        RECURSIVE AsSeq(_)
        AsSeq(S) == IF S = {} THEN <<>>
                    ELSE LET x == CHOOSE y \in S : TRUE
                         IN  <<x>> \o AsSeq(S \ {x})
    IN  [e \in DOMAIN names |->
            [item |-> names[e],
             itemIds |-> [k \in DOMAIN Of(names[e]) |-> Of(names[e])[k].id],
             neededBy |-> AsSeq(Owners(names[e]))]]

\* BuildShoppingList grouping by LOWER(li.itemName)
BuildShoppingList_Lower(scan) ==
    LET names == SortNames({Lower(scan[k].item) : k \in DOMAIN scan})
        Of(n) == SelectSeq(scan, LAMBDA r : Lower(r.item) = n)
    IN  [e \in DOMAIN names |->
            [item |-> names[e],
             itemIds |-> [k \in DOMAIN Of(names[e]) |-> Of(names[e])[k].id],
             neededBy |-> [k \in DOMAIN Of(names[e]) |-> Of(names[e])[k].username]]]

\* GET /shop -- SELECT li.itemName, array_agg(li.id), array_agg(u.username)
\*              ... GROUP BY li.itemName ORDER BY li.itemName, over the rows
\*              in the order scan
BuildShoppingList(scan) ==
    LET names == SortNames({scan[k].item : k \in DOMAIN scan})
        Of(n) == SelectSeq(scan, LAMBDA r : r.item = n)
    IN  [e \in DOMAIN names |->
            [item |-> names[e],
             itemIds |-> [k \in DOMAIN Of(names[e]) |-> Of(names[e])[k].id],
             neededBy |-> [k \in DOMAIN Of(names[e]) |-> Of(names[e])[k].username]]]

\* GET /shop
GetShop(p) ==
    LET call == [IdleProc EXCEPT !.op = "buildShoppingList"]
    IN  /\ Accept(p)
        /\ UNCHANGED <<tables, seqs, clock>>
        /\ \E scan \in ScanOrders(ShopRows) :
              Respond(p, call, 200, BuildShoppingList(scan))

\* GET /list/:username -- SELECT id FROM AppUser WHERE username
GetList_Select(p, username) ==
    LET call == [IdleProc EXCEPT !.op = "getList", !.username = username]
        user == UserByName(username)
    IN  /\ Accept(p)
        /\ UNCHANGED <<tables, seqs, clock>>
        /\ IF user = {}
           THEN Respond(p, call, 404, <<>>)
           ELSE Await(p, [call EXCEPT !.userId = (CHOOSE r \in user : TRUE).ID],
                      "GetList_SelectItems")

\* the all-null Favor row a LEFT JOIN supplies for a ListItem without a match
NullFavor ==
    [ID |-> NoId, amount |-> 0, fulfilled |-> NullTime, reimbursed |-> NullTime,
     byUserID |-> NoId, forUserID |-> NoId, itemID |-> NoId]

\* ListRows computing its flag from f.reimbursed instead of f.id
ListRows_Reimbursed(uid) ==
    LET Favors(li) == IF FavorOfItem(li.ID) = {} THEN {NullFavor}
                      ELSE FavorOfItem(li.ID)
        Givers(f) == LET us == {u \in AppUser : u.ID = f.byUserID}
                     IN  IF us = {} THEN {""} ELSE {u.username : u \in us}
    IN  UNION {UNION {{[id |-> li.ID, item |-> li.itemName,
                        priority |-> li.priority, added |-> li.added,
                        fulfilled |-> f.reimbursed # NullTime,
                        fulfilledBy |-> g, fulfilledAt |-> f.fulfilled,
                        favorId |-> f.ID] : g \in Givers(f)} :
                     f \in Favors(li)} :
                 li \in {x \in ListItem : x.userID = uid}}

\* GET /list/:username -- FROM ListItem li LEFT JOIN Favor f ON li.id = f.itemID
\*   LEFT JOIN AppUser u ON f.byUserID = u.id WHERE li.userID = $1, with
\*   CASE WHEN f.id IS NOT NULL THEN true ELSE false END as fulfilled and the
\*   nulls of the other columns of an item without a Favor
ListRows(uid) ==
    LET Favors(li) == IF FavorOfItem(li.ID) = {} THEN {NullFavor}
                      ELSE FavorOfItem(li.ID)
        Givers(f) == LET us == {u \in AppUser : u.ID = f.byUserID}
                     IN  IF us = {} THEN {""} ELSE {u.username : u \in us}
    IN  UNION {UNION {{[id |-> li.ID, item |-> li.itemName,
                        priority |-> li.priority, added |-> li.added,
                        fulfilled |-> f.ID # NoId,
                        fulfilledBy |-> g, fulfilledAt |-> f.fulfilled,
                        favorId |-> f.ID] : g \in Givers(f)} :
                     f \in Favors(li)} :
                 li \in {x \in ListItem : x.userID = uid}}

\* ORDER BY li.priority, li.added: the orders the executor may return
ListOrders(rows) ==
    {s \in RowOrders(rows) :
        \A i, j \in DOMAIN s :
            i < j => \/ s[i].priority < s[j].priority
                     \/ /\ s[i].priority = s[j].priority
                        /\ s[i].added <= s[j].added}

\* GET /list/:username -- the SELECT over ListItem, Favor and AppUser and
\* items.map(...)
GetList_SelectItems(p) ==
    LET call == proc[p]
    IN  /\ call.pc = "GetList_SelectItems"
        /\ UNCHANGED calls
        /\ UNCHANGED <<tables, seqs, clock>>
        /\ \E items \in ListOrders(ListRows(call.userId)) :
              Respond(p, call, 200, items)

\* time passes
Tick ==
    /\ clock < MaxClock
    /\ clock' = clock + 1
    /\ resp' = NoResp
    /\ UNCHANGED <<tables, seqs, proc, calls>>

(* ------------------------------ start state ---------------------------- *)
\* The tables as sql/groupcart-schema.sql leaves them, with its test data
\* scaled down to two users, two list items and one favor: users 1 and 2 in
\* group 'dev-team', one item each, and user 1 has bought user 2's item.
Init ==
    /\ UserGroup = {[ID |-> "dev-team", name |-> "GroupCart Dev Team"]}
    /\ AppUser =
         {[ID |-> 1, username |-> "a", firstName |-> "Ann", lastName |-> "Lee",
           color |-> "", groupID |-> "dev-team"],
          [ID |-> 2, username |-> "b", firstName |-> "Ann", lastName |-> "Lee",
           color |-> "", groupID |-> "dev-team"]}
    /\ ListItem =
         {[ID |-> 1, itemName |-> <<77>>, priority |-> 2, added |-> 1, userID |-> 1],
          [ID |-> 2, itemName |-> <<77>>, priority |-> 2, added |-> 1, userID |-> 2]}
    /\ Favor =
         {[ID |-> 1, amount |-> 4, fulfilled |-> 1, reimbursed |-> NullTime,
           byUserID |-> 1, forUserID |-> 2, itemID |-> 2]}
    /\ nextUserId = 3
    /\ nextItemId = 3
    /\ nextFavorId = 2
    /\ clock = 1
    /\ calls = 0
    /\ proc = [p \in Procs |-> IdleProc]
    /\ resp = NoResp

(* ----------------------------- operations ------------------------------ *)
createUser ==
    \/ \E p \in Procs, r \in PostUserRequests :
          PostUser_Select(p, r[1], r[2], r[3])
    \/ \E p \in Procs : PostUser_Insert(p)

updateUser ==
    \/ \E p \in Procs, u \in PutUserNames, b \in PutUserBodies :
          PutUser_Select(p, u, b)
    \/ \E p \in Procs : PutUser_SelectGroup(p)
    \/ \E p \in Procs : PutUser_Update(p)

createGroup ==
    \/ \E p \in Procs, g \in GroupIds, n \in GroupNames, us \in GroupUsers :
          PostGroup_Select(p, g, n, us)
    \/ \E p \in Procs : PostGroup_Insert(p)
    \/ \E p \in Procs : PostGroup_SelectUsers(p)
    \/ \E p \in Procs : PostGroup_UpdateUsers(p)

getGroup ==
    \/ \E p \in Procs, g \in GroupIds : GetGroup_Select(p, g)
    \/ \E p \in Procs : GetGroup_SelectUsers(p)

createListItem ==
    \/ \E p \in Procs, r \in PostListRequests :
          PostList_Select(p, r[1], r[2], r[3])
    \/ \E p \in Procs : PostList_Insert(p)

updateListItem ==
    \/ \E p \in Procs, r \in PutListRequests :
          PutList_Select(p, r[1], r[2], r[3], r[4])
    \/ \E p \in Procs : PutList_Update(p)

deleteListItem ==
    \/ \E p \in Procs, u \in Usernames, i \in 1 .. MaxItemId :
          DeleteList_Select(p, u, i)
    \/ \E p \in Procs : DeleteList_DeleteFavor(p)
    \/ \E p \in Procs : DeleteList_DeleteItem(p)

deleteUser ==
    \/ \E p \in Procs, u \in Usernames : DeleteUser_Select(p, u)
    \/ \E p \in Procs : DeleteUser_CountItems(p)
    \/ \E p \in Procs : DeleteUser_CountFavors(p)
    \/ \E p \in Procs : DeleteUser_DeleteItemFavors(p)
    \/ \E p \in Procs : DeleteUser_DeleteUserFavors(p)
    \/ \E p \in Procs : DeleteUser_DeleteItems(p)
    \/ \E p \in Procs : DeleteUser_DeleteUser(p)

createFavor ==
    \/ \E p \in Procs, r \in PostFavorRequests :
          PostFavor_SelectBy(p, r[1], r[2], r[3], r[4])
    \/ \E p \in Procs : PostFavor_SelectFor(p)
    \/ \E p \in Procs : PostFavor_SelectItem(p)
    \/ \E p \in Procs : PostFavor_SelectFavor(p)
    \/ \E p \in Procs : PostFavor_Insert(p)

updateFavor ==
    \/ \E p \in Procs, r \in PutFavorRequests :
          PutFavor_Select(p, r[1], r[2], r[3])
    \/ \E p \in Procs : PutFavor_Update(p)

buildShoppingList == \E p \in Procs : GetShop(p)

getList ==
    \/ \E p \in Procs, u \in Usernames \cup {"ghost"} : GetList_Select(p, u)
    \/ \E p \in Procs : GetList_SelectItems(p)

\* users, list items and the favor ledger with the cascading deletes
Next ==
    \/ createUser
    \/ createListItem
    \/ deleteListItem
    \/ deleteUser
    \/ createFavor
    \/ updateFavor

Spec == Init /\ [][Next]_vars

\* group creation
NextGroup ==
    \/ createUser
    \/ updateUser
    \/ deleteUser
    \/ createGroup
    \/ getGroup

SpecGroup == Init /\ [][NextGroup]_vars

\* the shopping list
NextShop ==
    \/ createListItem
    \/ updateListItem
    \/ deleteListItem
    \/ createFavor
    \/ buildShoppingList

SpecShop == Init /\ [][NextShop]_vars

\* reads of the shopping list during the cascading deletes
NextRead ==
    \/ deleteUser
    \/ deleteListItem
    \/ buildShoppingList

SpecRead == Init /\ [][NextRead]_vars

\* the favor ledger over time
NextLedger ==
    \/ createFavor
    \/ updateFavor
    \/ deleteListItem
    \/ Tick

SpecLedger == Init /\ [][NextLedger]_vars

\* the two read views of the list items
NextList ==
    \/ createListItem
    \/ deleteListItem
    \/ createFavor
    \/ getList
    \/ buildShoppingList

SpecList == Init /\ [][NextList]_vars

(* ------------------------------ properties ----------------------------- *)
\* slot p executes the statement labelled l in this step
Executes(p, l) == proc[p].pc = l /\ proc'[p] # proc[p]

\* C1: in every reachable state at most one Favor exists for any itemId
C1_OneFavorPerItem ==
    \A f, g \in Favor : f.itemID = g.itemID => f = g

\* a createFavor lost the race for its item: its INSERT was refused while
\* the item carries the one Favor of the winner
C1_Witness ==
    /\ resp.op = "createFavor"
    /\ resp.status = 500
    /\ Cardinality(FavorOfItem(resp.call.id)) = 1

\* C2: createGroup(id, name, U) with a username of U that does not exist
\* fails with NotFound, no Group with that id exists afterwards and the call
\* has written nothing
C2_CreateGroupUnknownUser ==
    (/\ resp.op = "createGroup"
     /\ resp.status \notin {400, 409}
     /\ \E u \in Range(resp.call.users) : UserByName(u) = {})
    => /\ resp.status = 404
       /\ resp.call.gid \notin GroupIdsUsed
       /\ resp.call.rows = 0

\* C3: whenever a deleteUser call has finished, with success or an error,
\* either it has removed nothing or the user, its ListItems and the Favors
\* referencing the user are all gone
C3_DeleteUserAllOrNothing ==
    resp.op = "deleteUser" =>
        \/ resp.call.rows = 0
        \/ /\ resp.call.userId \notin UserIds
           /\ \A li \in ListItem : li.userID # resp.call.userId
           /\ \A f \in Favor : /\ f.byUserID # resp.call.userId
                               /\ f.forUserID # resp.call.userId

\* C4: when deleteUser answers 200 the user row is gone, no ListItem is
\* owned by the user, and no Favor has the user as giver or beneficiary or
\* references a ListItem that no longer exists
C4_DeleteUserRemovesAll ==
    (resp.op = "deleteUser" /\ resp.status = 200) =>
        /\ resp.call.userId \notin UserIds
        /\ \A li \in ListItem : li.userID # resp.call.userId
        /\ \A f \in Favor : /\ f.byUserID # resp.call.userId
                            /\ f.forUserID # resp.call.userId
                            /\ f.itemID \in ItemIds

\* a deleteUser succeeded for a user that had ListItems and Favors
C4_Witness ==
    /\ resp.op = "deleteUser"
    /\ resp.status = 200
    /\ resp.call.itemCount > 0
    /\ resp.call.favorCount > 0
    /\ resp.call.rows > 2

\* C5: in every reachable state, the states between the statements of a
\* handler included, every ListItem's owner and every Favor's giver and
\* beneficiary is an existing User and every Favor's itemId is an existing
\* ListItem
C5_ReferentialIntegrity ==
    /\ \A li \in ListItem : li.userID \in UserIds
    /\ \A f \in Favor : /\ f.byUserID \in UserIds
                        /\ f.forUserID \in UserIds
                        /\ f.itemID \in ItemIds

\* a deleteUser has deleted Favors and is about to delete the ListItems
C5_Witness ==
    \E p \in Procs : /\ proc[p].pc = "DeleteUser_DeleteItems"
                     /\ proc[p].rows > 0
                     /\ \E li \in ListItem : li.userID = proc[p].userId

\* C6: a createFavor with a complete request, existing users and an item
\* owned by forUsername that loses against another createFavor for the same
\* item fails with Conflict
C6_LoserGetsConflict ==
    (/\ resp.op = "createFavor"
     /\ resp.status \notin {201, 400, 404}
     /\ FavorOfItem(resp.call.id) # {})
    => resp.status = 409

\* C7 as stated: a createFavor that ends while its item has a Favor it did
\* not insert itself has failed with Conflict
C7_AlwaysConflict ==
    (/\ resp.op = "createFavor"
     /\ resp.status # 201
     /\ FavorOfItem(resp.call.id) # {})
    => resp.status = 409

\* this step is a statement of a createFavor for item i
CreateFavorStep(i) ==
    \/ resp'.op = "createFavor" /\ resp'.call.id = i
    \/ \E p \in Procs : /\ proc'[p] # proc[p]
                        /\ proc'[p].op = "createFavor"
                        /\ proc'[p].id = i

\* C7, amended: no statement of a createFavor executed while its item has a
\* Favor changes any Favor or ends the call with success, and the existence
\* check (reached once validation and the lookups of both users and of the
\* item have passed) ends the call with Conflict
C7_ExistingFavorKept ==
    [][\A i \in 1 .. MaxItemId :
          (CreateFavorStep(i) /\ FavorOfItem(i) # {}) =>
              /\ Favor' = Favor
              /\ (resp'.op = "createFavor" => resp'.status # 201)
              /\ \A p \in Procs :
                    (Executes(p, "PostFavor_SelectFavor") /\ proc[p].id = i)
                        => (resp'.op = "createFavor" /\ resp'.status = 409)]_vars

\* a createFavor for an item that has a Favor was answered 409
C7_Witness ==
    /\ resp.op = "createFavor"
    /\ resp.status = 409
    /\ FavorOfItem(resp.call.id) # {}

\* ids of the ListItems with no Favor
Pending == {li.ID : li \in {x \in ListItem : FavorOfItem(x.ID) = {}}}

\* the ids listed by the entries of a shopping list, with repetitions
RECURSIVE ListedIds(_)
ListedIds(list) ==
    IF list = <<>> THEN <<>>
    ELSE Head(list).itemIds \o ListedIds(Tail(list))

\* C8: buildShoppingList returns one entry per distinct exact itemName among
\* the ListItems with no Favor, and the itemIds of its entries are exactly
\* the ids of those ListItems, each listed once
C8_ShoppingListPartition ==
    \A scan \in ScanOrders(ShopRows) :
        LET list == BuildShoppingList(scan)
            ids == ListedIds(list)
        IN  /\ {list[e].item : e \in DOMAIN list} =
                  {li.itemName : li \in {x \in ListItem : x.ID \in Pending}}
            /\ \A d, e \in DOMAIN list : list[d].item = list[e].item => d = e
            /\ Range(ids) = Pending
            /\ Len(ids) = Cardinality(Pending)
            /\ \A e \in DOMAIN list : \A k \in DOMAIN list[e].itemIds :
                  \E li \in ListItem : /\ li.ID = list[e].itemIds[k]
                                       /\ li.itemName = list[e].item

\* GET /shop answered with separate entries for "M" and "m"
C8_Witness ==
    /\ resp.op = "buildShoppingList"
    /\ \E d, e \in DOMAIN resp.body :
          resp.body[d].item = <<77>> /\ resp.body[e].item = <<109>>
    /\ Favor # {}

\* what a shopping list reports: <<itemName, item id, owner>> per listed id
Reported(list) ==
    UNION {{<<list[e].item, list[e].itemIds[k], list[e].neededBy[k]>> :
               k \in DOMAIN list[e].itemIds} : e \in DOMAIN list}

\* C9: when createFavor succeeds for an item i that the shopping list
\* contained, the shopping list built next no longer lists i, has no entry
\* left without items, and reports every other unfulfilled item as before
C9_FavorRemovesFromList ==
    [][\A p \in Procs :
          (/\ Executes(p, "PostFavor_Insert")
           /\ resp'.status = 201
           /\ proc[p].id \in Pending)
          => \A before \in ScanOrders(ShopRows) :
                \A after \in ScanOrders(ShopRows') :
                   LET old == BuildShoppingList(before)
                       new == BuildShoppingList(after)
                   IN  /\ proc[p].id \in Range(ListedIds(old))
                       /\ proc[p].id \notin Range(ListedIds(new))
                       /\ \A e \in DOMAIN new :
                             /\ Len(new[e].itemIds) > 0
                             /\ Len(new[e].neededBy) = Len(new[e].itemIds)
                       /\ Reported(new) =
                             {r \in Reported(old) : r[2] # proc[p].id}]_vars

\* a createFavor succeeded for an item whose name another unfulfilled item
\* still carries
C9_Witness ==
    /\ resp.op = "createFavor"
    /\ resp.status = 201
    /\ \E li \in ListItem, other \in ListItem :
          /\ li.ID = resp.call.id
          /\ other.ID \in Pending
          /\ other.itemName = li.itemName

\* the ledger state of the ListItem with id i
ItemState(i) ==
    IF FavorOfItem(i) = {} THEN "Pending"
    ELSE IF \E f \in FavorOfItem(i) : f.reimbursed # NullTime THEN "Reimbursed"
    ELSE "Fulfilled"

\* the transitions of the ledger of section 4.3 and the operations making them
LedgerMove(from, to) ==
    \/ /\ from = "Pending" /\ to = "Fulfilled"
       /\ \E p \in Procs : Executes(p, "PostFavor_Insert")
    \/ /\ from = "Fulfilled" /\ to = "Reimbursed"
       /\ \E p \in Procs : Executes(p, "PutFavor_Update")
    \/ /\ from = "Reimbursed" /\ to = "Fulfilled"
       /\ \E p \in Procs : Executes(p, "PutFavor_Update")

\* the step belongs to a request that is deleting the ListItem i itself:
\* a deleteListItem for i or a deleteUser of the owner of i
BeingDeleted(i) ==
    \E p \in Procs :
        /\ proc'[p] # proc[p]
        /\ \/ proc[p].op = "deleteListItem" /\ proc[p].id = i
           \/ /\ proc[p].op = "deleteUser"
              /\ \E li \in ListItem : li.ID = i /\ li.userID = proc[p].userId

\* C10 as stated: a ListItem that continues to exist (no request is deleting
\* it) changes its state only Pending -> Fulfilled (createFavor),
\* Fulfilled -> Reimbursed or Reimbursed -> Fulfilled (updateFavor)
C10_OnlyLedgerMoves ==
    [][\A i \in ItemIds \cap ItemIds' :
          (~BeingDeleted(i) /\ ItemState(i) # ItemState(i)')
              => LedgerMove(ItemState(i), ItemState(i)')]_vars

\* C10, amended: besides those three transitions, a ListItem that exists
\* before and after a step returns from Fulfilled or Reimbursed to Pending
\* only by a DELETE FROM Favor of deleteUser or of deleteListItem
C10_LedgerMovesOrFavorDeleted ==
    [][\A i \in ItemIds \cap ItemIds' :
          ItemState(i) # ItemState(i)' =>
             \/ LedgerMove(ItemState(i), ItemState(i)')
             \/ /\ ItemState(i)' = "Pending"
                /\ \E p \in Procs :
                      \/ Executes(p, "DeleteUser_DeleteItemFavors")
                      \/ Executes(p, "DeleteUser_DeleteUserFavors")
                      \/ Executes(p, "DeleteList_DeleteFavor")]_vars

\* an updateFavor has moved an item to Reimbursed
C10_Witness ==
    /\ resp.op = "updateFavor"
    /\ resp.status = 200
    /\ \E f \in Favor : /\ f.ID = resp.call.id
                        /\ ItemState(f.itemID) = "Reimbursed"
\* C11: an updateFavor(id, reimbursed = true, amount = X) on an existing
\* favor leaves it with a non-null reimbursed stamp and amount X; an
\* updateFavor(id, reimbursed = false, amount = X) leaves it with reimbursed
\* NULL and amount X, the row being what it would be had it never been
\* stamped, and no other table is written: the earlier stamp is kept nowhere
C11_ReimburseThenUndo ==
    [][\A p \in Procs :
          Executes(p, "PutFavor_Update") =>
              /\ UNCHANGED <<UserGroup, AppUser, ListItem>>
              /\ \A f \in Favor :
                    f.ID = proc[p].id =>
                       \E g \in Favor' :
                          /\ g.ID = f.ID
                          /\ g.amount = proc[p].amount[1]
                          /\ IF proc[p].reimbursed[1]
                             THEN g.reimbursed # NullTime
                             ELSE g = [f EXCEPT !.amount = proc[p].amount[1],
                                                !.reimbursed = NullTime]]_vars

\* an updateFavor(reimbursed = false, amount = X) is about to write a favor
\* that an updateFavor(reimbursed = true, amount = X) has stamped at a later
\* time than its fulfilment
C11_Witness ==
    \E p \in Procs : \E f \in Favor :
        /\ proc[p].pc = "PutFavor_Update"
        /\ proc[p].reimbursed = <<FALSE>>
        /\ f.ID = proc[p].id
        /\ f.amount = proc[p].amount[1]
        /\ f.reimbursed > f.fulfilled
\* C12: updateFavor answers Validation when reimbursed or amount is missing
\* and otherwise NotFound when no favor has the id, writing nothing in both
\* cases; otherwise its UPDATE leaves every table but Favor, every other
\* Favor row, and the fulfilled, byUserID, forUserID and itemID of the favor
\* itself unchanged
C12_UpdateFavorFrame ==
    [][/\ (resp'.op = "updateFavor" /\ resp'.call.pc = "idle") =>
             /\ UNCHANGED tables
             /\ resp'.call.rows = 0
             /\ resp'.status =
                   IF resp'.call.amount = <<>> \/ resp'.call.reimbursed = <<>>
                   THEN 400 ELSE 404
             /\ resp'.status = 404 => \A f \in Favor : f.ID # resp'.call.id
       /\ \A p \in Procs :
             (proc[p].pc = "idle" /\ proc'[p].pc = "PutFavor_Update") =>
                /\ UNCHANGED tables
                /\ proc'[p].amount # <<>> /\ proc'[p].reimbursed # <<>>
                /\ \E f \in Favor : f.ID = proc'[p].id
       /\ \A p \in Procs :
             Executes(p, "PutFavor_Update") =>
                /\ UNCHANGED <<UserGroup, AppUser, ListItem>>
                /\ Cardinality(Favor') = Cardinality(Favor)
                /\ \A f \in Favor :
                      IF f.ID # proc[p].id THEN f \in Favor'
                      ELSE \E g \in Favor' :
                              /\ g.ID = f.ID
                              /\ g.fulfilled = f.fulfilled
                              /\ g.byUserID = f.byUserID
                              /\ g.forUserID = f.forUserID
                              /\ g.itemID = f.itemID]_vars

\* an updateFavor has rewritten one favor while another favor exists
C12_Witness ==
    /\ resp.op = "updateFavor"
    /\ resp.status = 200
    /\ resp.call.rows = 1
    /\ \E f \in Favor : f.ID # resp.call.id
\* C13: the deletedItems and deletedFavors that a successful deleteUser
\* returns (the counts it selected before deleting) are the numbers of
\* ListItem rows and of Favor rows its DELETE statements removed
C13_CountsMatchRemoved ==
    (resp.op = "deleteUser" /\ resp.status = 200) =>
        /\ resp.call.itemCount = resp.call.itemRows
        /\ resp.call.favorCount = resp.call.favorRows
\* C14: an operation that answers Validation (400) or NotFound (404) has
\* written no row
C14_NoWriteBeforeError ==
    resp.status \in {400, 404} => resp.call.rows = 0
\* the request whose handler starts in this step (calls' = calls + 1)
Started ==
    IF resp'.op # "none" THEN resp'.call
    ELSE LET p == CHOOSE q \in Procs : proc[q].pc = "idle" /\ proc'[q].pc # "idle"
         IN  proc'[p]

\* C15: a createUser with non-empty names whose username exists when the
\* call is made, and a createGroup with a non-empty name whose id exists
\* when the call is made, answer Conflict (409) at once and change neither a
\* table nor a sequence, so the existing user or group keeps its fields and
\* no user's groupID is reassigned
C15_ConflictLeavesStore ==
    [][calls' = calls + 1 =>
          LET c == Started
          IN  ((\/ /\ c.op = "createUser"
                   /\ c.firstName # "" /\ c.lastName # ""
                   /\ UserByName(c.username) # {}
                \/ /\ c.op = "createGroup"
                   /\ c.name # ""
                   /\ c.gid \in GroupIdsUsed)
               => /\ resp'.call = c
                  /\ resp'.status = 409
                  /\ UNCHANGED <<tables, seqs>>)]_vars

\* a createGroup for an existing id that lists users was answered 409
C15_Witness ==
    /\ resp.op = "createGroup"
    /\ resp.status = 409
    /\ resp.call.gid \in GroupIdsUsed
    /\ \E u \in Range(resp.call.users) : UserByName(u) # {}
\* C16: when a statement of deleteUser, deleteListItem or createGroup fails
\* and the call answers Internal (500), none of the rows the call wrote
\* before stays written
C16_FailureRollsBack ==
    (/\ resp.op \in {"deleteUser", "deleteListItem", "createGroup"}
     /\ resp.status = 500)
    => resp.call.rows = 0
\* C17: a buildShoppingList answered while a deleteUser has removed some of
\* the user's rows but not yet all of them (so that the read cannot see all
\* of them) sees none of them: no entry names the user in neededBy
C17_ReadsSeeNoPartialDelete ==
    resp.op = "buildShoppingList" =>
        \A p \in Procs :
            (proc[p].op = "deleteUser" /\ proc[p].rows > 0) =>
                \A e \in DOMAIN resp.body :
                    proc[p].username \notin Range(resp.body[e].neededBy)
\* C18: a deleteListItem that has finished answered NotFound without a
\* write, or has removed nothing, or has left neither the item nor a Favor
\* on it in the store
C18_DeleteItemWithFavorAtomic ==
    resp.op = "deleteListItem" =>
        /\ resp.status = 404 => resp.call.rows = 0
        /\ \/ resp.call.rows = 0
           \/ /\ resp.call.id \notin ItemIds
              /\ FavorOfItem(resp.call.id) = {}
\* C19: in every reachable state every Favor's itemID is the id of a
\* ListItem whose userID is the Favor's forUserID
C19_FavorForItemOwner ==
    \A f \in Favor :
        \E li \in ListItem : li.ID = f.itemID /\ li.userID = f.forUserID

\* an updateListItem has rewritten an item that carries a Favor inserted by
\* a createFavor
C19_Witness ==
    /\ resp.op = "updateListItem"
    /\ resp.status = 200
    /\ resp.call.rows = 1
    /\ \E f \in FavorOfItem(resp.call.id) : f.ID >= 2
\* C20: createFavor answers Validation when amount is missing; otherwise it
\* answers NotFound when its lookup of byUsername or of forUsername finds no
\* user, or when its lookup of the item finds no ListItem with that id owned
\* by forUsername; a createFavor answered Validation or NotFound has written
\* no row and the step that answers leaves Favor as it was
C20_CreateFavorRejects ==
    [][/\ (calls' = calls + 1 /\ Started.op = "createFavor") =>
             /\ UNCHANGED tables
             /\ Started.amount = <<>> =>
                   (resp'.call = Started /\ resp'.status = 400)
             /\ (Started.amount # <<>> /\ UserByName(Started.by) = {}) =>
                   (resp'.op = "none" /\ Started.byUserId = NoId)
       /\ \A p \in Procs :
             (/\ Executes(p, "PostFavor_SelectFor")
              /\ \/ proc[p].byUserId = NoId
                 \/ UserByName(proc[p].username) = {})
             => (resp'.op = "createFavor" /\ resp'.status = 404)
       /\ \A p \in Procs :
             (/\ Executes(p, "PostFavor_SelectItem")
              /\ OwnedItem(proc[p].id, proc[p].username) = {})
             => (resp'.op = "createFavor" /\ resp'.status = 404)
       /\ (resp'.op = "createFavor" /\ resp'.status \in {400, 404}) =>
             /\ Favor' = Favor
             /\ resp'.call.rows = 0]_vars

\* a createFavor for an existing item of another owner than forUsername was
\* answered 404
C20_Witness ==
    /\ resp.op = "createFavor"
    /\ resp.status = 404
    /\ resp.call.id \in ItemIds
    /\ UserByName(resp.call.by) # {}
    /\ UserByName(resp.call.username) # {}
    /\ OwnedItem(resp.call.id, resp.call.username) = {}

\* C21: a createFavor that succeeds adds exactly one Favor row and changes no
\* other; the row carries the users named by and for, the item, the amount
\* and no reimbursed stamp, so that the item, Pending before, is Fulfilled;
\* the INSERT of a createFavor for a Pending item succeeds whenever both
\* users still exist, also when they are one and the same user
C21_CreateFavorAddsOne ==
    [][\A p \in Procs :
          Executes(p, "PostFavor_Insert") =>
             /\ resp'.status = 201 =>
                   /\ Favor \subseteq Favor'
                   /\ Cardinality(Favor' \ Favor) = 1
                   /\ \A g \in Favor' \ Favor :
                         /\ g.amount = proc[p].amount[1]
                         /\ g.itemID = proc[p].id
                         /\ g.reimbursed = NullTime
                         /\ \E u \in AppUser : /\ u.ID = g.byUserID
                                               /\ u.username = proc[p].by
                         /\ \E u \in AppUser : /\ u.ID = g.forUserID
                                               /\ u.username = proc[p].username
                   /\ \A i \in {proc[p].id} :
                         /\ ItemState(i) = "Pending"
                         /\ ItemState(i)' = "Fulfilled"
             /\ (/\ proc[p].id \in Pending
                 /\ proc[p].byUserId \in UserIds
                 /\ proc[p].userId \in UserIds)
                => resp'.status = 201]_vars

\* a createFavor succeeded whose giver is its beneficiary
C21_Witness ==
    /\ resp.op = "createFavor"
    /\ resp.status = 201
    /\ resp.call.by = resp.call.username
    /\ \E f \in Favor : /\ f.ID = resp.call.favorId
                        /\ f.byUserID = f.forUserID

\* C22: usernames are unique across AppUser in every reachable state, and a
\* createUser with non-empty names that does not succeed, another createUser
\* having taken its username, fails with Conflict
C22_OneCreateUserWins ==
    /\ \A u, v \in AppUser : u.username = v.username => u = v
    /\ (resp.op = "createUser" /\ resp.status \notin {201, 400}) =>
          resp.status = 409

\* C23: group ids are unique across UserGroup in every reachable state, and
\* a createGroup that does not succeed, another createGroup having taken
\* its id, fails with Conflict and has written no row
C23_OneCreateGroupWins ==
    /\ \A g, h \in UserGroup : g.ID = h.ID => g = h
    /\ (resp.op = "createGroup" /\ resp.status \notin {201, 400, 404}) =>
          (resp.status = 409 /\ resp.call.rows = 0)

\* the usernames a getGroup response lists
ListedUsers(body) == {body[k].username : k \in DOMAIN body}

\* C24: when createGroup answers 201 every existing user it lists has the
\* group's id as groupID, and a getGroup answered while a createGroup has
\* inserted that group and not yet finished lists every existing user of
\* that createGroup
C24_GroupAndMembersAtOnce ==
    /\ (resp.op = "createGroup" /\ resp.status = 201) =>
          \A u \in Range(resp.call.users) :
              \A r \in UserByName(u) : r.groupID = resp.call.gid
    /\ (resp.op = "getGroup" /\ resp.status = 200) =>
          \A p \in Procs :
              (/\ proc[p].op = "createGroup"
               /\ proc[p].gid = resp.call.gid
               /\ proc[p].rows > 0)
              => \A u \in Range(proc[p].users) :
                    UserByName(u) # {} => u \in ListedUsers(resp.body)

\* C25: in every entry of a shopping list neededBy is as long as itemIds,
\* which has one element per ListItem of that name with no Favor, and the
\* k-th element of neededBy is the username of the owner of the k-th element
\* of itemIds
C25_NeededByPerItem ==
    \A scan \in ScanOrders(ShopRows) :
        LET list == BuildShoppingList(scan)
        IN  \A e \in DOMAIN list :
               /\ Len(list[e].neededBy) = Len(list[e].itemIds)
               /\ Len(list[e].itemIds) =
                     Cardinality({li \in ListItem :
                                     /\ li.ID \in Pending
                                     /\ li.itemName = list[e].item})
               /\ \A k \in DOMAIN list[e].itemIds :
                     \E li \in ListItem : \E u \in AppUser :
                        /\ li.ID = list[e].itemIds[k]
                        /\ u.ID = li.userID
                        /\ u.username = list[e].neededBy[k]

\* GET /shop answered with an entry that names one user twice
C25_Witness ==
    /\ resp.op = "buildShoppingList"
    /\ \E e \in DOMAIN resp.body :
          \E j, k \in DOMAIN resp.body[e].neededBy :
             j # k /\ resp.body[e].neededBy[j] = resp.body[e].neededBy[k]

\* C26: in every entry of a shopping list that GET /shop returns the
\* itemIds are in ascending order
C26_ItemIdsAscending ==
    resp.op = "buildShoppingList" =>
        \A e \in DOMAIN resp.body :
            \A j, k \in DOMAIN resp.body[e].itemIds :
                j < k => resp.body[e].itemIds[j] < resp.body[e].itemIds[k]

\* a comes before b in the dictionary: at the first position where they
\* differ a has the smaller code point, or a ends there
RECURSIVE LexLess(_, _)
LexLess(a, b) ==
    IF a = <<>> THEN b # <<>>
    ELSE IF b = <<>> THEN FALSE
    ELSE \/ Head(a) < Head(b)
         \/ Head(a) = Head(b) /\ LexLess(Tail(a), Tail(b))

\* C27: the entries of a shopping list are in strictly ascending lexical
\* order of itemName
C27_EntriesAscending ==
    \A scan \in ScanOrders(ShopRows) :
        LET list == BuildShoppingList(scan)
        IN  \A d, e \in DOMAIN list :
               d < e => LexLess(list[d].item, list[e].item)

\* an updateListItem has renamed an unfulfilled item "Ma" while another
\* unfulfilled item is named "M"
C27_Witness ==
    /\ resp.op = "updateListItem"
    /\ resp.status = 200
    /\ \E li, other \in ListItem :
          /\ li.ID = resp.call.id
          /\ li.ID \in Pending /\ other.ID \in Pending
          /\ li.itemName = <<77, 97>>
          /\ other.itemName = <<77>>

\* C28: a buildShoppingList changes no table and no sequence, and its result
\* is fixed by the store: it is the one list the query can yield in that
\* state, so that calls between two writes return the same result
C28_PureRead ==
    [][resp'.op = "buildShoppingList" =>
          /\ UNCHANGED <<tables, seqs>>
          /\ \A scan \in ScanOrders(ShopRows) :
                resp'.body = BuildShoppingList(scan)]_vars

\* a buildShoppingList changes no table and no sequence, and what it reports
\* (name, item id and owner per listed item, and the order of the entries) is
\* fixed by the store
C28_PureReadContent ==
    [][resp'.op = "buildShoppingList" =>
          /\ UNCHANGED <<tables, seqs>>
          /\ \A scan \in ScanOrders(ShopRows) :
                LET list == BuildShoppingList(scan)
                IN  /\ Reported(resp'.body) = Reported(list)
                    /\ Len(resp'.body) = Len(list)
                    /\ \A e \in DOMAIN list :
                          resp'.body[e].item = list[e].item]_vars

\* C29: an updateUser that supplies a field, names an existing user and, if
\* it supplies a non-null groupId, an existing group succeeds, and the user
\* then has the supplied firstName, lastName, color and groupId (no group
\* when groupId is null)
C29_UpdateUserApplies ==
    (resp.op = "updateUser" /\ resp.status \notin {400, 404}) =>
        /\ resp.status = 200
        /\ \A r \in UserByName(resp.call.username) :
              /\ resp.call.body[1] # <<>> => r.firstName = resp.call.body[1][1]
              /\ resp.call.body[2] # <<>> => r.lastName = resp.call.body[2][1]
              /\ resp.call.body[3] # <<>> => r.color = resp.call.body[3][1]
              /\ resp.call.body[4] # <<>> => r.groupID = resp.call.body[4][1]

\* C30: updateUser answers Validation exactly when none of firstName,
\* lastName, color and groupId is supplied (a key supplied as null is
\* supplied); it answers NotFound from its user lookup only when no user has
\* the username and from its group lookup only when no group has the
\* supplied groupId; an updateUser answered Validation or NotFound has
\* written no row
C30_UpdateUserRejects ==
    resp.op = "updateUser" =>
        /\ resp.status = 400 <=> \A k \in 1 .. 4 : resp.call.body[k] = <<>>
        /\ resp.status \in {400, 404} => resp.call.rows = 0
        /\ (resp.status = 404 /\ resp.call.pc = "idle") =>
              UserByName(resp.call.username) = {}
        /\ (resp.status = 404 /\ resp.call.pc = "PutUser_SelectGroup") =>
              resp.call.body[4][1] \notin GroupIdsUsed

\* C31: every ListItem has a priority in 1 .. 3 in every reachable state; a
\* createListItem or updateListItem with an empty itemName or a priority
\* outside 1 .. 3 is answered Validation at once, and no other request of
\* these is; a createListItem that passes validation and finds no user of
\* the username is answered NotFound; none of these answers follows a write
C31_PriorityInRange ==
    /\ [](\A li \in ListItem : li.priority \in 1 .. 3)
    /\ [][(/\ calls' = calls + 1
           /\ Started.op \in {"createListItem", "updateListItem"}) =>
             LET c == Started
                 invalid == c.item = <<>> \/ c.priority \notin 1 .. 3
             IN  /\ invalid =>
                       (resp'.call = c /\ resp'.status = 400 /\ UNCHANGED tables)
                 /\ (resp'.op # "none" /\ resp'.status = 400) => invalid
                 /\ (/\ ~invalid
                     /\ c.op = "createListItem"
                     /\ UserByName(c.username) = {})
                    => (resp'.call = c /\ resp'.status = 404 /\ UNCHANGED tables)]_vars

\* an updateListItem for an item of its owner was answered 400 for its
\* priority 4
C31_Witness ==
    /\ resp.op = "updateListItem"
    /\ resp.status = 400
    /\ resp.call.priority = 4
    /\ resp.call.item # <<>>
    /\ OwnedItem(resp.call.id, resp.call.username) # {}

\* C32: an updateListItem that passes validation is answered NotFound at
\* once, without a write, when no ListItem with the id is owned by the user
\* of the username, and goes on otherwise; its UPDATE gives the item the new
\* name and priority and leaves the item's id, owner and added stamp, every
\* other ListItem and the tables UserGroup, AppUser and Favor unchanged
C32_UpdateItemFrame ==
    [][/\ (/\ calls' = calls + 1
           /\ Started.op = "updateListItem"
           /\ Started.item # <<>>
           /\ Started.priority \in 1 .. 3) =>
             IF OwnedItem(Started.id, Started.username) = {}
             THEN resp'.call = Started /\ resp'.status = 404 /\ UNCHANGED tables
             ELSE resp'.op = "none"
       /\ \A p \in Procs :
             Executes(p, "PutList_Update") =>
                /\ resp'.status = 200
                /\ UNCHANGED <<UserGroup, AppUser, Favor>>
                /\ Cardinality(ListItem') = Cardinality(ListItem)
                /\ \A li \in ListItem :
                      IF li.ID # proc[p].id THEN li \in ListItem'
                      ELSE [li EXCEPT !.itemName = proc[p].item,
                                      !.priority = proc[p].priority] \in ListItem']_vars

\* an updateListItem has renamed an item that has a Favor and given it
\* another priority
C32_Witness ==
    /\ resp.op = "updateListItem"
    /\ resp.status = 200
    /\ resp.call.rows = 1
    /\ FavorOfItem(resp.call.id) # {}
    /\ \E li \in ListItem : /\ li.ID = resp.call.id
                            /\ li.itemName = <<77, 97>>
                            /\ li.priority = 3

\* C33: in every reachable state, the states between the statements of a
\* handler included, no two UserGroup rows have the same ID and the groupID
\* of every AppUser is null or the ID of a UserGroup row
C33_GroupIntegrity ==
    /\ \A g, h \in UserGroup : g.ID = h.ID => g = h
    /\ \A u \in AppUser : u.groupID # NullGroup => u.groupID \in GroupIdsUsed

\* a createGroup has moved a user into its new group while a second
\* createGroup of the same id, accepted before the group existed, has been
\* refused by the primary key
C33_Witness ==
    /\ resp.op = "createGroup"
    /\ resp.status = 500
    /\ resp.call.pc = "PostGroup_Insert"
    /\ \E g \in UserGroup : g.ID = resp.call.gid /\ g.name # resp.call.name
    /\ \E u \in AppUser : u.groupID = resp.call.gid

\* C34: in every reachable state the amount of every Favor is non-negative
C34_AmountNonNegative == \A f \in Favor : f.amount >= 0

\* C35: no statement of a deleteUser of user u adds a row, and each leaves
\* unchanged the UserGroup table, every AppUser other than u, every ListItem
\* owned by another user and every Favor whose giver and beneficiary are
\* other users and whose item is not owned by u
C35_DeleteUserFrame ==
    [][\A p \in Procs :
          (/\ proc[p].op = "deleteUser"
           /\ proc[p].pc # "idle"
           /\ proc'[p] # proc[p]) =>
             LET u == proc[p].userId
                 items == {li.ID : li \in {x \in ListItem : x.userID = u}}
             IN  /\ UserGroup' = UserGroup
                 /\ AppUser' \subseteq AppUser
                 /\ ListItem' \subseteq ListItem
                 /\ Favor' \subseteq Favor
                 /\ \A r \in AppUser : r.ID # u => r \in AppUser'
                 /\ \A li \in ListItem : li.userID # u => li \in ListItem'
                 /\ \A f \in Favor :
                       (/\ f.byUserID # u
                        /\ f.forUserID # u
                        /\ f.itemID \notin items) => f \in Favor']_vars

\* a deleteUser has removed a user with its ListItems and Favors while
\* another user, that user's ListItem and a Favor among other users remain
C35_Witness ==
    /\ resp.op = "deleteUser"
    /\ resp.status = 200
    /\ resp.call.rows > 0
    /\ \E li \in ListItem : li.userID # resp.call.userId
    /\ \E f \in Favor : /\ f.byUserID # resp.call.userId
                        /\ f.forUserID # resp.call.userId

\* C36: a successful getList answers with one entry for every ListItem the
\* user owns in the state it reads, and each entry has fulfilled = true
\* exactly when a Favor exists for its item and fulfilled = false exactly
\* when its id is among the itemIds of buildShoppingList taken in that state
C36_ViewsAgree ==
    (resp.op = "getList" /\ resp.status = 200) =>
        /\ \A li \in ListItem :
              li.userID = resp.call.userId =>
                 \E k \in DOMAIN resp.body : resp.body[k].id = li.ID
        /\ \A k \in DOMAIN resp.body :
              /\ resp.body[k].id \in ItemIds
              /\ resp.body[k].fulfilled <=> FavorOfItem(resp.body[k].id) # {}
              /\ \A scan \in ScanOrders(ShopRows) :
                    (~resp.body[k].fulfilled) <=>
                        resp.body[k].id \in Range(ListedIds(BuildShoppingList(scan)))

\* getList has answered with a fulfilled and an unfulfilled item of one user
C36_Witness ==
    /\ resp.op = "getList"
    /\ resp.status = 200
    /\ \E j, k \in DOMAIN resp.body :
          /\ resp.body[j].fulfilled
          /\ resp.body[j].fulfilledBy # ""
          /\ ~resp.body[k].fulfilled
          /\ resp.body[k].favorId = NoId

\* C37: a createGroup with a non-empty name, whose id was not refused as the
\* id of an existing group and whose usernames all exist, is answered 201,
\* also when a username is listed more than once
C37_CreateGroupSucceeds ==
    (/\ resp.op = "createGroup"
     /\ resp.call.name # ""
     /\ resp.status # 409
     /\ resp.call.pc # "PostGroup_Insert"
     /\ \A u \in Range(resp.call.users) : UserByName(u) # {})
    => resp.status = 201

\* C38: no stored reimbursed stamp lies in the future; an updateFavor with
\* reimbursed = true takes its stamp from the clock while it runs, so not
\* before any stamp stored at that moment; and its UPDATE, applied to a favor
\* reimbursed or not, leaves the favor with exactly that stamp, so the stamp
\* stored is always that of the updateFavor(reimbursed = true) applied last
C38_RestampReplaces ==
    /\ [](\A f \in Favor : f.reimbursed <= clock)
    /\ [][\A p \in Procs :
             /\ (/\ proc[p].pc = "idle"
                 /\ proc'[p].pc = "PutFavor_Update"
                 /\ proc'[p].reimbursed = <<TRUE>>) =>
                    /\ proc'[p].reimbursedAt = clock
                    /\ \A f \in Favor : f.reimbursed <= proc'[p].reimbursedAt
             /\ (/\ Executes(p, "PutFavor_Update")
                 /\ proc[p].reimbursed = <<TRUE>>) =>
                    \A f \in Favor :
                       f.ID = proc[p].id =>
                          \E g \in Favor' :
                             /\ g.ID = f.ID
                             /\ g.reimbursed # NullTime
                             /\ g.reimbursed = proc[p].reimbursedAt]_vars

\* an updateFavor(reimbursed = true) that took its stamp after a first one
\* had stamped the favor is about to write it
C38_Witness ==
    \E p \in Procs : \E f \in Favor :
        /\ proc[p].pc = "PutFavor_Update"
        /\ proc[p].reimbursed = <<TRUE>>
        /\ f.ID = proc[p].id
        /\ f.reimbursed # NullTime
        /\ f.reimbursed < proc[p].reimbursedAt

\* C39: when createGroup answers 201 every existing user it lists has the new
\* group's id as its one groupID, whatever group the user had before; an
\* updateUser that supplies a non-null groupId and is not answered Validation
\* or NotFound succeeds and leaves the user with that groupID; and getGroup
\* lists, each once, exactly the users whose groupID is the group's id in
\* the state it reads
C39_OneGroupPerUser ==
    /\ (resp.op = "createGroup" /\ resp.status = 201) =>
          \A r \in AppUser :
              r.username \in Range(resp.call.users) => r.groupID = resp.call.gid
    /\ (/\ resp.op = "updateUser"
        /\ resp.status \notin {400, 404}
        /\ resp.call.body[4] \notin {<<>>, <<NullGroup>>}) =>
          /\ resp.status = 200
          /\ \A r \in UserByName(resp.call.username) :
                r.groupID = resp.call.body[4][1]
    /\ (resp.op = "getGroup" /\ resp.status = 200) =>
          /\ ListedUsers(resp.body) =
                {r.username : r \in {x \in AppUser : x.groupID = resp.call.gid}}
          /\ \A j, k \in DOMAIN resp.body :
                resp.body[j].username = resp.body[k].username => j = k
====
